---- MODULE Spec2Model ----
(***************************************************************************)
(* Cross3D prism edge network: the two construction passes of             *)
(* Cross3DPrismEdgeNetwork (Edge Builder, Discontinuity Resolver), the     *)
(* common routine adjustEdgeEnd and the query getCellEdgeLocation.         *)
(*                                                                         *)
(* A point is a tuple <<x, y>> or <<x, y, z>> of integer micrometers, a    *)
(* polyline a sequence of 3D points, a line segment a pair <<from, to>>.   *)
(* A cell is a record; cells are named by their index in the subdivision   *)
(* (1-based here, cell_data index + 1).                                    *)
(*                                                                         *)
(* Where the code reads storage it does not own, nothing is assumed of the  *)
(* value read: it is an input of the call, and every case that tells apart *)
(* what the call does with it is taken.  For a polyline element beyond the *)
(* end these are the cases of Garbage; for the front or back of an empty   *)
(* neighbour list, whose to_index selects a cell, they are the cells of    *)
(* the subdivision and the case that the call stops at the read.           *)
(***************************************************************************)
EXTENDS Integers, Sequences, FiniteSets, TLC

VARIABLES
    cells,        \* the subdivision structure (read-only after Init)
    left_edges,   \* cell_to_left_edge_locations
    right_edges,  \* cell_to_right_edge_locations
    pc,           \* "build", "resolve", "check", "done", "aborted", "probe", "probed"
    built,        \* cells for which addCellEdges has run
    resolved,     \* cells for which both resolver calls have run
    cur,          \* cell whose UP resolver call has run and whose DOWN call is next (0: none)
    err,          \* "none", or what stopped the constructor
    inOrder,      \* TRUE while every layer was visited in the order of the cell indices
    q,            \* the last query: its arguments and its outcome
    probe         \* the last direct call of adjustEdgeEnd: arguments and result

vars == <<cells, left_edges, right_edges, pc, built, resolved, cur, err, inOrder, q, probe>>

----------------------------------------------------------------------------
(* Directions *)

LEFT == "LEFT"
RIGHT == "RIGHT"
UP == "UP"
DOWN == "DOWN"

opposite(d) ==
    CASE d = UP -> DOWN
      [] d = DOWN -> UP
      [] d = LEFT -> RIGHT
      [] d = RIGHT -> LEFT

CharMax == 127

----------------------------------------------------------------------------
(* Integer arithmetic as the C++ does it *)

Abs(a) == IF a < 0 THEN -a ELSE a

Max(a, b) == IF a >= b THEN a ELSE b

\* C++ integer division truncates toward zero
TruncDiv(a, b) ==
    IF (a >= 0) = (b > 0) THEN Abs(a) \div Abs(b) ELSE -(Abs(a) \div Abs(b))

RECURSIVE SqrtSearch(_, _, _)
SqrtSearch(n, lo, hi) ==
    IF lo >= hi THEN lo
    ELSE LET mid == (lo + hi + 1) \div 2
         IN IF mid * mid <= n THEN SqrtSearch(n, mid, hi)
                              ELSE SqrtSearch(n, lo, mid - 1)

\* sqrt() of an integer, converted back to an integer: the floor of the root
ISqrt(n) == SqrtSearch(n, 0, 46340)

toPoint(p) == <<p[1], p[2]>>

toPoint3(p, z) == <<p[1], p[2], z>>

P2Sub(a, b) == <<a[1] - b[1], a[2] - b[2]>>

P3Sub(a, b) == <<a[1] - b[1], a[2] - b[2], a[3] - b[3]>>

P3Add(a, b) == <<a[1] + b[1], a[2] + b[2], a[3] + b[3]>>

P3Mul(a, k) == <<a[1] * k, a[2] * k, a[3] * k>>

P3Div(a, k) == <<TruncDiv(a[1], k), TruncDiv(a[2], k), TruncDiv(a[3], k)>>

\* squared length of a 2D point
vSize2(p) == p[1] * p[1] + p[2] * p[2]

\* length of a 2D point
vSize(p) == ISqrt(vSize2(p))

\* Point3::vSize2
vSize2of3(p) == p[1] * p[1] + p[2] * p[2] + p[3] * p[3]

Last(s) == s[Len(s)]

----------------------------------------------------------------------------
(* adjustEdgeEnd *)

BendMinDist2 == 10 * 10

\* the end of the polyline that adjustEdgeEnd moves
EndIdx(P, V) == IF V = UP THEN Len(P) ELSE 1

\* its neighbour in the polyline (lower_edge_location)
NextToEnd(P, V) == IF V = UP THEN P[Len(P) - 1] ELSE P[2]

\* a variant that takes the 3D length of the move
move_length_3d(P, V, dest) == ISqrt(vSize2of3(P3Sub(dest, P[EndIdx(P, V)])))

move_length(P, V, dest) == vSize(P2Sub(toPoint(dest), toPoint(P[EndIdx(P, V)])))

edge_direction_vector(P, V) == P3Sub(NextToEnd(P, V), P[EndIdx(P, V)])

\* a variant that takes the 3D length of the adjacent segment
edge_direction_vector_length_3d(P, V) == ISqrt(vSize2of3(edge_direction_vector(P, V)))

edge_direction_vector_length(P, V) == vSize(toPoint(edge_direction_vector(P, V)))

\* the call divides by zero at the bending_point: the end differs from the
\* destination and the adjacent segment is vertical (2D length 0).  The division
\* is undefined: the call is followed no further (probe.trap) and returns no
\* polyline
adjustDividesByZero(P, V, dest) ==
    /\ P[EndIdx(P, V)] # dest
    /\ edge_direction_vector_length(P, V) = 0

bending_point(P, V, dest) ==
    P3Add(P[EndIdx(P, V)],
          P3Div(P3Div(P3Mul(edge_direction_vector(P, V), move_length(P, V, dest)), 2),
                edge_direction_vector_length(P, V)))

bendInserted(P, V, dest) ==
    /\ vSize2of3(P3Sub(bending_point(P, V, dest), NextToEnd(P, V))) > BendMinDist2
    /\ vSize2of3(P3Sub(bending_point(P, V, dest), dest)) > BendMinDist2

\* the polyline after adjustEdgeEnd(P, V, dest); callers rule out the division by zero
adjustEdgeEnd(P, V, dest) ==
    IF P[EndIdx(P, V)] = dest THEN P
    ELSE LET moved == [P EXCEPT ![EndIdx(P, V)] = dest]
             bend == bending_point(P, V, dest)
         IN IF bendInserted(P, V, dest)
            THEN IF V = UP
                 THEN SubSeq(moved, 1, Len(P) - 1) \o <<bend, moved[Len(P)]>>
                 ELSE <<moved[1], bend>> \o Tail(moved)
            ELSE moved

----------------------------------------------------------------------------
(* The subdivision view: what the passes read of a cell *)

depth(c) == cells[c].depth

adjacent(c, d) == cells[c].adj[d]

NoErr == "none"

St(l, r, e) == [l |-> l, r |-> r, err |-> e]

Fail(st, e) == [st EXCEPT !.err = e]

----------------------------------------------------------------------------
(* Edge Builder *)

\* a variant that gives a side without neighbours the lowest depth
getNeighborDepth_lowest(c, direction) ==
    IF adjacent(c, direction) = <<>> THEN -1
    ELSE depth(Head(adjacent(c, direction)))

getNeighborDepth(c, direction) ==
    IF adjacent(c, direction) = <<>> THEN CharMax
    ELSE depth(Head(adjacent(c, direction)))

\* a variant with the tie-break of the RIGHT side
ownsLeft_geq(c) == depth(c) >= getNeighborDepth(c, LEFT)

ownsLeft(c) == depth(c) > getNeighborDepth(c, LEFT)

ownsRight(c) == depth(c) >= getNeighborDepth(c, RIGHT)

\* a variant that ignores is_expanding
initialEdge_noSwap(c, edge_side) ==
    LET edge == IF edge_side = LEFT THEN cells[c].fromEdge ELSE cells[c].toEdge
    IN << <<edge[1][1], edge[1][2], cells[c].zmin>>,
          <<edge[2][1], edge[2][2], cells[c].zmax>> >>

\* the 2-point polyline addCellEdge starts from
initialEdge(c, edge_side) ==
    LET e == IF edge_side = LEFT THEN cells[c].fromEdge ELSE cells[c].toEdge
        edge == IF cells[c].exp THEN e ELSE <<e[2], e[1]>>
    IN << <<edge[1][1], edge[1][2], cells[c].zmin>>,
          <<edge[2][1], edge[2][2], cells[c].zmax>> >>

\* upstairs_neighbor: the neighbour in direction up_down on the side of the edge
upstairsNeighbor(c, edge_side, up_down) ==
    IF edge_side = LEFT THEN Head(adjacent(c, up_down)) ELSE Last(adjacent(c, up_down))

\* upstairs_side_neighbor: the lateral neighbour of the upstairs neighbour
upstairsSideNeighbor(c, edge_side, up_down) ==
    LET sides == adjacent(upstairsNeighbor(c, edge_side, up_down), edge_side)
    IN IF up_down = UP THEN Head(sides) ELSE Last(sides)

\* a variant in which upstairs neighbours of the cell's own depth constrain too
constrained_orEqual(c, edge_side, up_down) ==
    /\ adjacent(c, up_down) # <<>>
    /\ adjacent(upstairsNeighbor(c, edge_side, up_down), edge_side) # <<>>
    /\ depth(c) <= Max(depth(upstairsNeighbor(c, edge_side, up_down)),
                       depth(upstairsSideNeighbor(c, edge_side, up_down)))

\* the upstairs neighbours constrain this end of the edge (no early return)
constrained(c, edge_side, up_down) ==
    /\ adjacent(c, up_down) # <<>>
    /\ adjacent(upstairsNeighbor(c, edge_side, up_down), edge_side) # <<>>
    /\ depth(c) < Max(depth(upstairsNeighbor(c, edge_side, up_down)),
                      depth(upstairsSideNeighbor(c, edge_side, up_down)))

\* the reference edge is the upstairs neighbour's own (first branch of the lookup)
refIsUpstairs(c, edge_side, up_down) ==
    LET nv == depth(upstairsNeighbor(c, edge_side, up_down))
        nvs == depth(upstairsSideNeighbor(c, edge_side, up_down))
    IN nv > nvs \/ (edge_side = RIGHT /\ nv = nvs)

\* the cell whose polyline is looked up
refCell(c, edge_side, up_down) ==
    IF refIsUpstairs(c, edge_side, up_down)
    THEN upstairsNeighbor(c, edge_side, up_down)
    ELSE upstairsSideNeighbor(c, edge_side, up_down)

\* the side of the mapping it is looked up in
refSide(c, edge_side, up_down) ==
    IF refIsUpstairs(c, edge_side, up_down) THEN edge_side ELSE opposite(edge_side)

edgeMap(st, side) == IF side = LEFT THEN st.l ELSE st.r

\* the end of the reference polyline that faces the cell
moveDestination(ref, up_down) == IF up_down = UP THEN Head(ref) ELSE Last(ref)

\* applyOscillationConstraints on the polyline P under construction for cell c;
\* the result is [P, err]
applyOscillationConstraints(st, c, edge_side, up_down, P) ==
    IF adjacent(c, up_down) = <<>> THEN [P |-> P, err |-> NoErr]
    ELSE IF adjacent(upstairsNeighbor(c, edge_side, up_down), edge_side) = <<>>
    THEN [P |-> P, err |-> "assert_upstairs_side_neighbors"]
    ELSE IF ~constrained(c, edge_side, up_down) THEN [P |-> P, err |-> NoErr]
    ELSE LET m == edgeMap(st, refSide(c, edge_side, up_down))
             k == refCell(c, edge_side, up_down)
         IN IF k \notin DOMAIN m THEN [P |-> P, err |-> "lookup_miss"]
            ELSE LET move_destination == moveDestination(m[k], up_down)
                 IN IF adjustDividesByZero(P, up_down, move_destination)
                    THEN [P |-> P, err |-> "division_by_zero"]
                    ELSE [P |-> adjustEdgeEnd(P, up_down, move_destination),
                          err |-> NoErr]

Put(m, c, P) == [x \in DOMAIN m \cup {c} |-> IF x = c /\ c \notin DOMAIN m THEN P ELSE m[x]]

\* addCellEdge: the initial polyline, the UP then the DOWN constraint, then emplace
addCellEdge(st, c, edge_side) ==
    LET up == applyOscillationConstraints(st, c, edge_side, UP, initialEdge(c, edge_side))
        down == IF up.err # NoErr THEN up
                ELSE applyOscillationConstraints(st, c, edge_side, DOWN, up.P)
    IN IF down.err # NoErr THEN Fail(st, down.err)
       ELSE IF edge_side = LEFT THEN [st EXCEPT !.l = Put(st.l, c, down.P)]
                                ELSE [st EXCEPT !.r = Put(st.r, c, down.P)]

addCellEdges(st, c) ==
    LET afterLeft == IF ownsLeft(c) THEN addCellEdge(st, c, LEFT) ELSE st
    IN IF afterLeft.err # NoErr THEN afterLeft
       ELSE IF ownsRight(c) THEN addCellEdge(afterLeft, c, RIGHT) ELSE afterLeft

----------------------------------------------------------------------------
(* Discontinuity Resolver *)

\* getEdge: the cell and the side of the mapping that hold the polyline governing
\* side edge_side of cell c at its up_down end.

\* the front or back of an empty list yields no cell: the call stops at the read
NoCell == 0

\* what the reads of the LEFT and of the RIGHT list yield when the list is empty
NoRead == [LEFT |-> NoCell, RIGHT |-> NoCell]

\* neighbors.back() / neighbors.front(), taken without a test for an empty
\* list: of an empty list the call reads a Link that is not there, and
\* read[edge_side] is the cell its to_index selects
getEdgeNeighbor(c, edge_side, up_down, read) ==
    IF adjacent(c, edge_side) = <<>> THEN read[edge_side]
    ELSE IF up_down = UP THEN Last(adjacent(c, edge_side))
    ELSE Head(adjacent(c, edge_side))

\* the call gets past the read of the neighbour
getEdgeDefined(c, edge_side, up_down, read) ==
    getEdgeNeighbor(c, edge_side, up_down, read) # NoCell

getEdgeOfNeighbor(c, edge_side, up_down, read) ==
    LET n == getEdgeNeighbor(c, edge_side, up_down, read)
    IN depth(n) > depth(c) \/ (edge_side = LEFT /\ depth(n) = depth(c))

getEdgeCell(c, edge_side, up_down, read) ==
    IF getEdgeOfNeighbor(c, edge_side, up_down, read)
    THEN getEdgeNeighbor(c, edge_side, up_down, read) ELSE c

getEdgeSide(c, edge_side, up_down, read) ==
    IF getEdgeOfNeighbor(c, edge_side, up_down, read) THEN opposite(edge_side) ELSE edge_side

getEdgeFound(st, c, edge_side, up_down, read) ==
    getEdgeCell(c, edge_side, up_down, read)
        \in DOMAIN edgeMap(st, getEdgeSide(c, edge_side, up_down, read))

getEdge(st, c, edge_side, up_down, read) ==
    edgeMap(st, getEdgeSide(c, edge_side, up_down, read))[getEdgeCell(c, edge_side, up_down, read)]

cross(a, b) == a[1] * b[2] - a[2] * b[1]

\* LinearAlg2D::intersection is defined for two lines that are not parallel
intersects(a, b) == cross(P2Sub(a[2], a[1]), P2Sub(b[2], b[1])) # 0

\* LinearAlg2D::intersection of the lines through segments a and b
intersection(a, b) ==
    LET r == P2Sub(a[2], a[1])
        s == P2Sub(b[2], b[1])
        num == cross(P2Sub(b[1], a[1]), s)
        den == cross(r, s)
    IN <<a[1][1] + TruncDiv(r[1] * num, den), a[1][2] + TruncDiv(r[2] * num, den)>>

\* the end point of a polyline on the side of up_down
endOf(P, up_down) == IF up_down = UP THEN Last(P) ELSE Head(P)

\* a variant that takes the second upstairs neighbour
leftmostUpstairs_second(c, up_down) == adjacent(c, up_down)[2]

\* leftmost_upstairs_neighbor: the front of the upstairs neighbours
leftmostUpstairs(c, up_down) == Head(adjacent(c, up_down))

\* a variant that lifts the intersection to the far z bound of the upstairs cell
troubleEdgeMiddle3d_farZ(st, c, up_down, read) ==
    LET from == toPoint(endOf(getEdge(st, c, LEFT, up_down, read), up_down))
        to == toPoint(endOf(getEdge(st, c, RIGHT, up_down, read), up_down))
        leftmost == leftmostUpstairs(c, up_down)
    IN toPoint3(intersection(cells[leftmost].toEdge, <<from, to>>),
                IF up_down = UP THEN cells[leftmost].zmax ELSE cells[leftmost].zmin)

\* the destination the resolver moves the trouble edge's end to
troubleEdgeMiddle3d(st, c, up_down, read) ==
    LET from == toPoint(endOf(getEdge(st, c, LEFT, up_down, read), up_down))
        to == toPoint(endOf(getEdge(st, c, RIGHT, up_down, read), up_down))
        leftmost == leftmostUpstairs(c, up_down)
    IN toPoint3(intersection(cells[leftmost].toEdge, <<from, to>>),
                IF up_down = UP THEN cells[leftmost].zmin ELSE cells[leftmost].zmax)

preventZdiscontinuityProblem(st, c, up_down, read) ==
    LET ups == adjacent(c, up_down)
        leftmost == leftmostUpstairs(c, up_down)
        rightmost == Last(ups)
    IN IF Len(ups) < 2 THEN st
       ELSE IF ~getEdgeDefined(c, LEFT, up_down, read) THEN Fail(st, "empty_list_access")
       ELSE IF ~getEdgeFound(st, c, LEFT, up_down, read) THEN Fail(st, "lookup_miss")
       ELSE IF ~getEdgeDefined(c, RIGHT, up_down, read) THEN Fail(st, "empty_list_access")
       ELSE IF ~getEdgeFound(st, c, RIGHT, up_down, read) THEN Fail(st, "lookup_miss")
       ELSE IF depth(leftmost) # depth(c) + 1 \/ depth(rightmost) # depth(leftmost)
       THEN Fail(st, "assert_upstairs_depth")
       ELSE IF rightmost \in DOMAIN st.l THEN Fail(st, "assert_leftmost_owner")
       ELSE IF leftmost \notin DOMAIN st.r THEN Fail(st, "lookup_miss")
       ELSE LET from == toPoint(endOf(getEdge(st, c, LEFT, up_down, read), up_down))
                to == toPoint(endOf(getEdge(st, c, RIGHT, up_down, read), up_down))
            IN IF ~intersects(cells[leftmost].toEdge, <<from, to>>)
               THEN Fail(st, "no_intersection")
               ELSE LET dest == troubleEdgeMiddle3d(st, c, up_down, read)
                        P == st.r[leftmost]
                    IN IF adjustDividesByZero(P, opposite(up_down), dest)
                       THEN Fail(st, "division_by_zero")
                       ELSE [st EXCEPT !.r[leftmost] =
                                           adjustEdgeEnd(P, opposite(up_down), dest)]

----------------------------------------------------------------------------
(* Edge Query *)

\* the mapping side and the cell getCellEdgeLocation looks up
querySide(before, after) == IF depth(after) > depth(before) THEN LEFT ELSE RIGHT

queryCell(before, after) == IF depth(after) > depth(before) THEN after ELSE before

\* what the read of edge_locations[size], the element beyond the end of a
\* polyline, may do.  The storage there is not the network's, so the read is an
\* input of the call, told apart by what the call does with it:
\*   "abort"    the read does not return (a checked operator[], a fault);
\*   "below"    it yields an element whose z is below the requested z;
\*   "same_xy"  it yields an element with a z not below the requested z and the
\*              x and y of the polyline's last point;
\*   "other_xy" it yields any other element with a z not below the requested z
Garbage == {"abort", "below", "same_xy", "other_xy"}

\* where the scan reads no element beyond the end
NoGarbage == "none"

\* kind "any_point": the call returns a Point computed from the element beyond
\* the end, in 64-bit arithmetic that may wrap: any Point, and p holds no value
Outcome(kind, p, seg, oob) == [kind |-> kind, p |-> p, seg |-> seg, oob |-> oob]

\* the loop's test: the requested z is not above the segment's upper point
segmentReaches(z, above) == z <= above[3]

\* the last iteration of the loop, edge_location_idx = size - 1, on the read g
\* of the element beyond the end: the test of line 204 fails for "below" and
\* the loop ends in assert(false); otherwise the direction is taken from the
\* last point to that element
scanBeyondEnd(i, g) ==
    IF g = "abort" THEN Outcome("abort", <<0, 0>>, i, TRUE)
    ELSE IF g = "below" THEN Outcome("assert_false", <<0, 0>>, 0, TRUE)
    ELSE IF g = "same_xy" THEN Outcome("assert_direction", <<0, 0>>, i, TRUE)
    ELSE Outcome("any_point", <<0, 0>>, i, TRUE)

\* the scan of getCellEdgeLocation from index i (1-based: edge_location_idx + 1);
\* g is what the read of the element beyond the end does
RECURSIVE scanEdge(_, _, _, _)
scanEdge(P, z, i, g) ==
    IF i + 1 > Len(P) THEN scanBeyondEnd(i, g)
    ELSE LET below == P[i]
             above == P[i + 1]
         IN IF segmentReaches(z, above)
            THEN LET rest_z == z - below[3]
                     dx == above[1] - below[1]
                     dy == above[2] - below[2]
                     dz == above[3] - below[3]
                 IN IF dx = 0 /\ dy = 0
                    THEN Outcome("assert_direction", <<0, 0>>, i, FALSE)
                    ELSE IF dz = 0
                    THEN Outcome("division_by_zero", <<0, 0>>, i, FALSE)
                    ELSE Outcome("point",
                                 <<below[1] + TruncDiv(dx * rest_z, dz),
                                   below[2] + TruncDiv(dy * rest_z, dz)>>, i, FALSE)
            ELSE scanEdge(P, z, i + 1, g)

getCellEdgeLocation(st, before, after, z, g) ==
    LET m == edgeMap(st, querySide(before, after))
        k == queryCell(before, after)
    IN IF k \notin DOMAIN m THEN Outcome("lookup_miss", <<0, 0>>, 0, FALSE)
       ELSE scanEdge(m[k], z, 1, g)

\* the scan reaches edge_location_idx = size - 1 and reads the element at size
readsBeyondEnd(st, before, after, z) ==
    LET m == edgeMap(st, querySide(before, after))
        k == queryCell(before, after)
    IN /\ k \in DOMAIN m
       /\ \A i \in 2..Len(m[k]) : ~segmentReaches(z, m[k][i])

\* what the call may read beyond the end
GarbageOf(st, before, after, z) ==
    IF readsBeyondEnd(st, before, after, z) THEN Garbage ELSE {NoGarbage}

----------------------------------------------------------------------------
(* Subdivisions the network is constructed over.  Footprints are triangles of a
   fan around the origin; the side edges run head to tail through the fan. *)

O == <<0, 0>>
P0 == <<-1000, 0>>
P1 == <<0, 1000>>
P2 == <<1000, 0>>
P3 == <<0, -1000>>
M12 == <<500, 500>>

Adj(l, r, u, d) == [LEFT |-> l, RIGHT |-> r, UP |-> u, DOWN |-> d]

Cell(dp, zmin, zmax, fromEdge, toEdge, adj) ==
    [depth |-> dp, zmin |-> zmin, zmax |-> zmax, exp |-> TRUE,
     fromEdge |-> fromEdge, toEdge |-> toEdge, adj |-> adj]

\* one cell without neighbours
SingleCell == << Cell(0, 0, 1000, <<P1, O>>, <<O, P2>>, Adj(<<>>, <<>>, <<>>, <<>>)) >>

\* three columns and two layers; the middle column's upper layer is split in two
\* cells of depth d + 1 above the cell of depth d (cells 5 and 6 above cell 2)
FineAbove(d) ==
    << Cell(d, 0, 1000, <<P0, O>>, <<O, P1>>, Adj(<<>>, <<2>>, <<4>>, <<>>)),
       Cell(d, 0, 1000, <<P1, O>>, <<O, P2>>, Adj(<<1>>, <<3>>, <<5, 6>>, <<>>)),
       Cell(d, 0, 1000, <<P2, O>>, <<O, P3>>, Adj(<<2>>, <<>>, <<7>>, <<>>)),
       Cell(d, 1000, 2000, <<P0, O>>, <<O, P1>>, Adj(<<>>, <<5>>, <<>>, <<1>>)),
       Cell(d + 1, 1000, 2000, <<P1, O>>, <<O, M12>>, Adj(<<4>>, <<6>>, <<>>, <<2>>)),
       Cell(d + 1, 1000, 2000, <<M12, O>>, <<O, P2>>, Adj(<<5>>, <<7>>, <<>>, <<2>>)),
       Cell(d, 1000, 2000, <<P2, O>>, <<O, P3>>, Adj(<<6>>, <<>>, <<>>, <<3>>)) >>

\* a subdivision turned upside down
Flip(cs) ==
    [i \in DOMAIN cs |->
        [cs[i] EXCEPT !.zmin = 2000 - cs[i].zmax, !.zmax = 2000 - cs[i].zmin,
                      !.adj = Adj(cs[i].adj[LEFT], cs[i].adj[RIGHT],
                                  cs[i].adj[DOWN], cs[i].adj[UP])]]

\* a cell with two stacked right neighbours of half its height, and a column
\* to the right of those
Lateral(dA, dLow, dHigh) ==
    << Cell(dA, 0, 2000, <<P0, O>>, <<O, P1>>, Adj(<<>>, <<2, 3>>, <<>>, <<>>)),
       Cell(dLow, 0, 1000, <<P1, O>>, <<O, P2>>, Adj(<<1>>, <<4>>, <<3>>, <<>>)),
       Cell(dHigh, 1000, 2000, <<P1, O>>, <<O, P2>>, Adj(<<1>>, <<4>>, <<>>, <<2>>)),
       Cell(dA, 0, 2000, <<P2, O>>, <<O, P3>>, Adj(<<2, 3>>, <<>>, <<>>, <<>>)) >>

\* three columns and two layers; the middle column's upper layer is split in
\* three cells of depth 1 above the cell of depth 0 (cells 5, 6, 7 above cell 2)
Ma == <<300, 700>>
Mb == <<700, 300>>

ThreeAbove ==
    << Cell(0, 0, 1000, <<P0, O>>, <<O, P1>>, Adj(<<>>, <<2>>, <<4>>, <<>>)),
       Cell(0, 0, 1000, <<P1, O>>, <<O, P2>>, Adj(<<1>>, <<3>>, <<5, 6, 7>>, <<>>)),
       Cell(0, 0, 1000, <<P2, O>>, <<O, P3>>, Adj(<<2>>, <<>>, <<8>>, <<>>)),
       Cell(0, 1000, 2000, <<P0, O>>, <<O, P1>>, Adj(<<>>, <<5>>, <<>>, <<1>>)),
       Cell(1, 1000, 2000, <<P1, O>>, <<O, Ma>>, Adj(<<4>>, <<6>>, <<>>, <<2>>)),
       Cell(1, 1000, 2000, <<Ma, O>>, <<O, Mb>>, Adj(<<5>>, <<7>>, <<>>, <<2>>)),
       Cell(1, 1000, 2000, <<Mb, O>>, <<O, P2>>, Adj(<<6>>, <<8>>, <<>>, <<2>>)),
       Cell(0, 1000, 2000, <<P2, O>>, <<O, P3>>, Adj(<<7>>, <<>>, <<>>, <<3>>)) >>

\* the first column of the fan with its lower layer split in two (cells 3 and 4
\* of depth 1 below cell 5), the second column with its upper layer split in
\* two (cells 1 and 2 of depth 1 above cell 6), and a third column of one cell.
\* Cell 5 has no LEFT neighbour and two DOWN neighbours
M01 == <<-300, 700>>

EndPair ==
    << Cell(1, 1000, 2000, <<P1, O>>, <<O, M12>>, Adj(<<5>>, <<2>>, <<>>, <<6>>)),
       Cell(1, 1000, 2000, <<M12, O>>, <<O, P2>>, Adj(<<1>>, <<7>>, <<>>, <<6>>)),
       Cell(1, 0, 1000, <<P0, O>>, <<O, M01>>, Adj(<<>>, <<4>>, <<5>>, <<>>)),
       Cell(1, 0, 1000, <<M01, O>>, <<O, P1>>, Adj(<<3>>, <<6>>, <<5>>, <<>>)),
       Cell(0, 1000, 2000, <<P0, O>>, <<O, P1>>, Adj(<<>>, <<1>>, <<>>, <<3, 4>>)),
       Cell(0, 0, 1000, <<P1, O>>, <<O, P2>>, Adj(<<4>>, <<7>>, <<1, 2>>, <<>>)),
       Cell(0, 0, 2000, <<P2, O>>, <<O, P3>>, Adj(<<6, 2>>, <<>>, <<>>, <<>>)) >>

\* a subdivision with flatter cells: every z scaled by 701 / 1000, which leaves
\* a side of length 1000 over one layer at atan(0.701), just above 35 degrees
Low(cs) ==
    [i \in DOMAIN cs |->
        [cs[i] EXCEPT !.zmin = (cs[i].zmin * 701) \div 1000,
                      !.zmax = (cs[i].zmax * 701) \div 1000]]

\* the depths the coarse cells of a subdivision are given
MaxBaseDepth == 1

\* how much deeper than the coarse cells a cell of a subdivision can be
MaxDepthStep == 2

\* a subdivision with cell c at depth dp
WithDepth(cs, c, dp) == [cs EXCEPT ![c].depth = dp]

\* FineAbove(d) with the lower cell of its left or of its right column (cell 1
\* or cell 3) deeper than the coarse cells
FineAboveBeside(d) ==
    {FineAbove(d)}
    \cup {WithDepth(FineAbove(d), c, dp) : c \in {1, 3}, dp \in (d + 1)..(d + MaxDepthStep)}

WithExpanding(cs, e) == [i \in DOMAIN cs |-> [cs[i] EXCEPT !.exp = e[i]]]

Shapes ==
    {SingleCell}
    \cup UNION {FineAboveBeside(d) : d \in 0..MaxBaseDepth}
    \cup UNION { {Flip(cs) : cs \in FineAboveBeside(d)} : d \in 0..MaxBaseDepth }
    \cup UNION { {Lateral(d, dL, dH) : dL \in d..(d + MaxDepthStep),
                                        dH \in d..(d + MaxDepthStep)} :
                    d \in 0..MaxBaseDepth }
    \cup {Low(Lateral(d, d, d + 1)) : d \in 0..MaxBaseDepth}

\* cells 4 and 8 of ThreeAbove and cells 5 and 7 of EndPair own no edge: their
\* is_expanding is never read
Subdivisions ==
    UNION { {WithExpanding(cs, e) : e \in [DOMAIN cs -> BOOLEAN]} : cs \in Shapes }
    \cup {WithExpanding(ThreeAbove, e) :
             e \in {f \in [DOMAIN ThreeAbove -> BOOLEAN] : f[4] /\ f[8]}}
    \cup {WithExpanding(EndPair, e) :
             e \in {f \in [DOMAIN EndPair -> BOOLEAN] : f[5] /\ f[7]}}

----------------------------------------------------------------------------
(* debugCheckInclinations: the assertions a build with DEBUG defined runs after
   both passes *)

\* every stored polyline, with the cell that owns it
Stored ==
    {[cell |-> c, side |-> LEFT, P |-> left_edges[c]] : c \in DOMAIN left_edges}
    \cup {[cell |-> c, side |-> RIGHT, P |-> right_edges[c]] : c \in DOMAIN right_edges}

strictlyZMonotone(P) == \A i \in 1..(Len(P) - 1) : P[i][3] < P[i + 1][3]

\* float angle = atan(INT2MM(z) / INT2MM(xy)); float angle_deg = angle / M_PI * 180;
\* assert(angle_deg > 35.0).  Both roundings to float are part of the test: the
\* angle is rounded to a multiple of 2^-24 rad and angle_deg to a multiple of
\* 2^-18 degrees, so angle_deg > 35.0 holds from the quotient
\* 0.70020757834767955 on (35.0000015 degrees), not from tan(35 degrees) =
\* 0.70020753820 on.  19902 / 28423 = 0.70020757836... is the smallest quotient
\* of two integers with xy <= 1000000 that is not below that bound.
\* xy = 0 gives +-infinity (90 or -90 degrees) or, with z = 0, a NaN that
\* compares false; the products stay within 32 bits for xy < 75000
angleAbove35(z, xy) ==
    IF xy = 0 THEN z > 0
    ELSE IF z <= 0 THEN FALSE
    ELSE IF z >= xy THEN TRUE
    ELSE z * 28423 >= xy * 19902

\* the assertion on the segment from below to above
inclinationOk(below, above) ==
    angleAbove35(above[3] - below[3], vSize(toPoint(P3Sub(above, below))))

\* debugCheckInclination passes on the polyline edge
debugCheckInclination(edge) ==
    /\ Len(edge) > 1
    /\ \A idx \in 1..(Len(edge) - 1) : inclinationOk(edge[idx], edge[idx + 1])

\* debugCheckInclinations passes on both mappings
debugCheckInclinations == \A e \in Stored : debugCheckInclination(e.P)

----------------------------------------------------------------------------
(* The constructor: both passes, one call per step *)

CellIds == DOMAIN cells

\* a variant that visits the cells in any order
buildEnabled_anyOrder(c) == c \notin built

\* the Builder pass visits the layers in descending depth
buildEnabled(c) ==
    /\ c \notin built
    /\ \A o \in CellIds \ built : depth(o) <= depth(c)

\* the Resolver pass visits the layers in ascending depth
resolveEnabled(c) ==
    /\ c \notin resolved
    /\ \A o \in CellIds \ resolved : depth(o) >= depth(c)

NoQuery == [before |-> 0, after |-> 0, z |-> 0, out |-> Outcome("none", <<0, 0>>, 0, FALSE)]

NoProbe == [P |-> <<>>, V |-> UP, dest |-> <<0, 0, 0>>, out |-> <<>>, trap |-> FALSE]

\* c is the first cell, in index order, of those a pass may visit next
firstOf(c, S) == \A o \in S : o >= c

buildCandidates == {c \in CellIds : buildEnabled(c)}

resolveCandidates == {c \in CellIds : resolveEnabled(c)}

Init ==
    /\ cells \in Subdivisions
    /\ left_edges = <<>>
    /\ right_edges = <<>>
    /\ pc = "build"
    /\ built = {}
    /\ resolved = {}
    /\ cur = 0
    /\ err = NoErr
    /\ inOrder = TRUE
    /\ q = NoQuery
    /\ probe = NoProbe

Now == St(left_edges, right_edges, NoErr)

\* the state after a step of a pass that produced st
Store(st, nextpc) ==
    /\ left_edges' = st.l
    /\ right_edges' = st.r
    /\ err' = st.err
    /\ pc' = IF st.err = NoErr THEN nextpc ELSE "aborted"

AddCellEdges(c) ==
    /\ pc = "build"
    /\ buildEnabled(c)
    /\ built' = built \cup {c}
    /\ Store(addCellEdges(Now, c), IF built' = CellIds THEN "resolve" ELSE "build")
    /\ inOrder' = (inOrder /\ firstOf(c, buildCandidates))
    /\ UNCHANGED <<cells, resolved, cur, q, probe>>

\* the cell that the front or back of the list edge_side of c may select in
\* the call preventZdiscontinuityProblem(c, up_down): of a list that is not
\* empty, or in a call that returns before getEdge, nothing is read amiss
EmptyListReadOf(c, edge_side, up_down) ==
    IF Len(adjacent(c, up_down)) >= 2 /\ adjacent(c, edge_side) = <<>>
    THEN CellIds \cup {NoCell}
    ELSE {NoCell}

EmptyListReads(c, up_down) ==
    [LEFT : EmptyListReadOf(c, LEFT, up_down), RIGHT : EmptyListReadOf(c, RIGHT, up_down)]

PreventUp(c, read) ==
    /\ pc = "resolve"
    /\ cur = 0
    /\ resolveEnabled(c)
    /\ cur' = c
    /\ Store(preventZdiscontinuityProblem(Now, c, UP, read), "resolve")
    /\ inOrder' = (inOrder /\ firstOf(c, resolveCandidates))
    /\ UNCHANGED <<cells, built, resolved, q, probe>>

PreventDown(c, read) ==
    /\ pc = "resolve"
    /\ cur = c
    /\ cur' = 0
    /\ resolved' = resolved \cup {c}
    /\ Store(preventZdiscontinuityProblem(Now, c, DOWN, read),
             IF resolved' = CellIds THEN "check" ELSE "resolve")
    /\ UNCHANGED <<cells, built, inOrder, q, probe>>

\* #ifdef DEBUG debugCheckInclinations(); #endif at the end of the constructor:
\* the build decides whether the call is made
DebugCheck(debug) ==
    /\ pc = "check"
    /\ IF debug /\ ~debugCheckInclinations
       THEN pc' = "aborted" /\ err' = "assert_inclination"
       ELSE pc' = "done" /\ err' = err
    /\ UNCHANGED <<cells, left_edges, right_edges, built, resolved, cur, inOrder,
                   q, probe>>

\* how far outside a cell's z range the queries reach
QueryMargin == 100

QueryZs(before, after) ==
    LET lo == cells[before].zmin
        hi == cells[before].zmax
    IN {lo, hi, cells[after].zmin, cells[after].zmax, (lo + hi) \div 2,
        lo + (hi - lo) \div 4, lo - QueryMargin, hi + QueryMargin}

\* getCellEdgeLocation is const: a call changes nothing of the network and its
\* outcome depends on no earlier call, so one call is taken per run
Query(before, after, z, g) ==
    /\ pc = "done"
    /\ q = NoQuery
    /\ q' = [before |-> before, after |-> after, z |-> z,
             out |-> getCellEdgeLocation(Now, before, after, z, g)]
    /\ UNCHANGED <<cells, left_edges, right_edges, pc, built, resolved, cur, err,
                   inOrder, probe>>

Next ==
    \/ \E c \in CellIds : AddCellEdges(c)
    \/ \E c \in CellIds : \E read \in EmptyListReads(c, UP) : PreventUp(c, read)
    \/ \E c \in CellIds : \E read \in EmptyListReads(c, DOWN) : PreventDown(c, read)
    \/ \E debug \in BOOLEAN : DebugCheck(debug)
    \/ \E b \in CellIds : \E i \in DOMAIN adjacent(b, RIGHT) :
          \E z \in QueryZs(b, adjacent(b, RIGHT)[i]) :
             \E g \in GarbageOf(Now, b, adjacent(b, RIGHT)[i], z) :
                Query(b, adjacent(b, RIGHT)[i], z, g)

Spec == Init /\ [][Next]_vars

----------------------------------------------------------------------------
(* adjustEdgeEnd called directly, on polylines and destinations of a grid *)

ProbeXY == { <<0, 0>>, <<300, 0>>, <<1000, 0>>, <<0, 1000>> }

ProbeDestXY == ProbeXY \cup { <<6, 0>>, <<1600, 0>>, <<0, 2400>> }

ProbeZ == {0, 500, 995, 1000}

ProbePolylines ==
    { << <<a[1], a[2], 0>>, <<b[1], b[2], 1000>> >> : a \in ProbeXY, b \in ProbeXY }
    \cup { << <<a[1], a[2], 0>>, <<500, 0, 500>>, <<b[1], b[2], 1000>> >> :
              a \in ProbeXY, b \in ProbeXY }

InitAdjust ==
    /\ cells = SingleCell
    /\ left_edges = <<>>
    /\ right_edges = <<>>
    /\ pc = "probe"
    /\ built = {}
    /\ resolved = {}
    /\ cur = 0
    /\ err = NoErr
    /\ inOrder = TRUE
    /\ q = NoQuery
    /\ probe = NoProbe

AdjustProbe(P, V, dest) ==
    /\ pc = "probe"
    /\ probe' = [P |-> P, V |-> V, dest |-> dest,
                 trap |-> adjustDividesByZero(P, V, dest),
                 out |-> IF adjustDividesByZero(P, V, dest) THEN <<>>
                         ELSE adjustEdgeEnd(P, V, dest)]
    /\ pc' = "probed"
    /\ UNCHANGED <<cells, left_edges, right_edges, built, resolved, cur, err,
                   inOrder, q>>

NextAdjust ==
    \E P \in ProbePolylines : \E V \in {UP, DOWN} : \E xy \in ProbeDestXY : \E z \in ProbeZ :
        AdjustProbe(P, V, <<xy[1], xy[2], z>>)

SpecAdjust == InitAdjust /\ [][NextAdjust]_vars

----------------------------------------------------------------------------
(* The constructor run in the order of the cell indices within every layer *)

RECURSIVE buildInOrder(_, _)
buildInOrder(st, todo) ==
    IF todo = {} \/ st.err # NoErr THEN st
    ELSE LET c == CHOOSE x \in todo :
                      \A o \in todo : depth(o) < depth(x) \/ (depth(o) = depth(x) /\ o >= x)
         IN buildInOrder(addCellEdges(st, c), todo \ {c})

\* read: what the front or back of an empty list yields in this run
RECURSIVE resolveInOrder(_, _, _)
resolveInOrder(st, todo, read) ==
    IF todo = {} \/ st.err # NoErr THEN st
    ELSE LET c == CHOOSE x \in todo :
                      \A o \in todo : depth(o) > depth(x) \/ (depth(o) = depth(x) /\ o >= x)
             up == preventZdiscontinuityProblem(st, c, UP, read)
             down == IF up.err # NoErr THEN up
                     ELSE preventZdiscontinuityProblem(up, c, DOWN, read)
         IN resolveInOrder(down, todo \ {c}, read)

constructInOrder(read) ==
    resolveInOrder(buildInOrder(St(<<>>, <<>>, NoErr), CellIds), CellIds, read)

----------------------------------------------------------------------------
(* The entries of the mappings a call looks up, and the entries a step changes.
   An entry is named by the side of its mapping and its key. *)

Entry(side, c) == [side |-> side, cell |-> c]

\* the find() call of applyOscillationConstraints(c, edge_side, up_down)
builderFind(c, edge_side, up_down) ==
    IF constrained(c, edge_side, up_down)
    THEN {Entry(refSide(c, edge_side, up_down), refCell(c, edge_side, up_down))}
    ELSE {}

\* the find() calls of addCellEdge(c, edge_side) on the mappings st: the call
\* for DOWN is made only if the call for UP returns
builderReadsOfSide(st, c, edge_side) ==
    builderFind(c, edge_side, UP)
    \cup (IF applyOscillationConstraints(st, c, edge_side, UP,
                                        initialEdge(c, edge_side)).err # NoErr
          THEN {}
          ELSE builderFind(c, edge_side, DOWN))

\* the polylines addCellEdges(c) looks up in the current state, as far as the
\* call gets (a failed lookup or assertion ends it)
builderReads(c) ==
    LET afterLeft == IF ownsLeft(c) THEN addCellEdge(Now, c, LEFT) ELSE Now
    IN (IF ownsLeft(c) THEN builderReadsOfSide(Now, c, LEFT) ELSE {})
       \cup (IF afterLeft.err = NoErr /\ ownsRight(c)
             THEN builderReadsOfSide(afterLeft, c, RIGHT)
             ELSE {})

\* the polylines preventZdiscontinuityProblem(c, up_down) reads in the current
\* state: those of the two getEdge calls and the trouble edge, as far as the
\* call gets (a failed lookup or assertion ends it)
resolverReads(c, up_down, read) ==
    LET ups == adjacent(c, up_down)
        from_edge == Entry(getEdgeSide(c, LEFT, up_down, read),
                           getEdgeCell(c, LEFT, up_down, read))
        to_edge == Entry(getEdgeSide(c, RIGHT, up_down, read),
                         getEdgeCell(c, RIGHT, up_down, read))
    IN IF Len(ups) < 2 THEN {}
       ELSE IF ~getEdgeDefined(c, LEFT, up_down, read) THEN {}
       ELSE IF ~getEdgeFound(Now, c, LEFT, up_down, read) THEN {}
       ELSE IF ~getEdgeDefined(c, RIGHT, up_down, read) THEN {from_edge}
       ELSE IF ~getEdgeFound(Now, c, RIGHT, up_down, read) THEN {from_edge}
       ELSE IF depth(Head(ups)) # depth(c) + 1 \/ depth(Last(ups)) # depth(Head(ups))
       THEN {from_edge, to_edge}
       ELSE IF Last(ups) \in DOMAIN left_edges THEN {from_edge, to_edge}
       ELSE IF Head(ups) \notin DOMAIN right_edges THEN {from_edge, to_edge}
       ELSE {from_edge, to_edge, Entry(RIGHT, Head(ups))}

\* the keys whose entry differs between the mappings m and n
changedKeys(m, n) ==
    {k \in DOMAIN m \cup DOMAIN n :
        k \notin DOMAIN m \/ k \notin DOMAIN n \/ m[k] # n[k]}

\* the entries a step changes
written ==
    {Entry(LEFT, k) : k \in changedKeys(left_edges, left_edges')}
    \cup {Entry(RIGHT, k) : k \in changedKeys(right_edges, right_edges')}

\* the step is the call addCellEdges(c)
BuildStepOf(c) == pc = "build" /\ c \notin built /\ built' = built \cup {c}

\* the step is the call preventZdiscontinuityProblem(c, up_down)
ResolveStepOf(c, up_down) ==
    /\ pc = "resolve"
    /\ IF up_down = UP THEN cur = 0 /\ cur' = c ELSE cur = c /\ cur' = 0

----------------------------------------------------------------------------
(* Properties *)

Constructed == pc = "done"

hasNeighbor(c, side) == adjacent(c, side) # <<>>

firstNeighborDepth(c, side) == cells[adjacent(c, side)[1]].depth

\* the lateral pairs: b is an entry of a's RIGHT list
LateralPairs ==
    {ab \in CellIds \X CellIds :
        \E i \in DOMAIN adjacent(ab[1], RIGHT) : adjacent(ab[1], RIGHT)[i] = ab[2]}

\* C1: after construction a cell with a neighbour on its left is a key of
\* left_edges exactly when it is deeper than that neighbour (the first entry of
\* its LEFT list), a cell with a neighbour on its right is a key of right_edges
\* exactly when it is at least as deep as that neighbour (the first entry of its
\* RIGHT list), and the mappings have no other keys.
C1_OwnershipRule ==
    Constructed =>
        /\ \A c \in CellIds :
              /\ hasNeighbor(c, LEFT) =>
                    (c \in DOMAIN left_edges
                        <=> cells[c].depth > firstNeighborDepth(c, LEFT))
              /\ hasNeighbor(c, RIGHT) =>
                    (c \in DOMAIN right_edges
                        <=> cells[c].depth >= firstNeighborDepth(c, RIGHT))
        /\ DOMAIN left_edges \subseteq {c \in CellIds : hasNeighbor(c, LEFT)}
        /\ DOMAIN right_edges \subseteq {c \in CellIds : hasNeighbor(c, RIGHT)}

C1_Witness ==
    /\ Constructed
    /\ \E c \in DOMAIN left_edges : hasNeighbor(c, LEFT)
    /\ \E c \in DOMAIN right_edges :
          hasNeighbor(c, RIGHT) /\ cells[c].depth = firstNeighborDepth(c, RIGHT)
    /\ \E c \in CellIds \ DOMAIN left_edges :
          hasNeighbor(c, LEFT) /\ cells[c].depth = firstNeighborDepth(c, LEFT)

\* C2: after construction, of two laterally adjacent cells a (left) and b
\* (right) exactly one holds the shared edge: a is a key of right_edges or b is
\* a key of left_edges, and not both; for every entry of a lateral list.
C2_OwnershipExclusive ==
    Constructed =>
        \A ab \in LateralPairs :
            (ab[1] \in DOMAIN right_edges) # (ab[2] \in DOMAIN left_edges)

\* the move of adjustEdgeEnd kept the z of the moved end and inserted a bend
probeInsertedBend ==
    /\ pc = "probed"
    /\ ~probe.trap
    /\ probe.dest[3] = probe.P[EndIdx(probe.P, probe.V)][3]
    /\ Len(probe.out) = Len(probe.P) + 1

\* the bend of probe.out
probeBend == IF probe.V = UP THEN probe.out[Len(probe.out) - 1] ELSE probe.out[2]

strictlyBetween(z, a, b) == (a < z /\ z < b) \/ (b < z /\ z < a)

\* C3: every stored polyline has at least 2 points with strictly increasing z,
\* and a bend that adjustEdgeEnd inserts has its z strictly between the z of the
\* moved end and the z of the point next to it, whatever the move length.
C3_ZMonotone ==
    /\ \A e \in Stored : Len(e.P) >= 2 /\ strictlyZMonotone(e.P)
    /\ probeInsertedBend =>
          strictlyBetween(probeBend[3], probe.dest[3], NextToEnd(probe.P, probe.V)[3])

\* C4: in every state the first point of a stored polyline is at the owner's
\* z_min and the last at its z_max: no move of either pass changes an end's z.
C4_BoundaryMatch ==
    \A e \in Stored :
        /\ Head(e.P)[3] = cells[e.cell].zmin
        /\ Last(e.P)[3] = cells[e.cell].zmax

\* an end of a stored polyline that is no longer where addCellEdge put it
endMoved(e, V) == toPoint(endOf(e.P, V)) # toPoint(endOf(initialEdge(e.cell, e.side), V))

C4_Witness ==
    /\ Constructed
    /\ \E e \in Stored : \E V \in {UP, DOWN} :
          constrained(e.cell, e.side, V) /\ endMoved(e, V) /\ Len(e.P) >= 3
    /\ \E e \in Stored : \E c \in CellIds : \E V \in {UP, DOWN} :
          /\ e.side = RIGHT
          /\ Len(adjacent(c, V)) >= 2
          /\ Head(adjacent(c, V)) = e.cell
          /\ endMoved(e, opposite(V))

\* the reference polyline of the oscillation constraint on (c, side, V)
refPolyline(c, side, V) ==
    IF refSide(c, side, V) = LEFT THEN left_edges[refCell(c, side, V)]
                                  ELSE right_edges[refCell(c, side, V)]

\* C5: after construction, wherever the oscillation constraint applied to an
\* owned edge of a cell, the XY of that edge's end equals the XY of the facing
\* end of the reference polyline.
C5_Continuity ==
    Constructed =>
        \A e \in Stored : \A V \in {UP, DOWN} :
            constrained(e.cell, e.side, V) =>
                toPoint(endOf(e.P, V))
                    = toPoint(endOf(refPolyline(e.cell, e.side, V), opposite(V)))

\* C6: no lookup of an edge polyline misses: not in either pass, and not in
\* getCellEdgeLocation(before, after, z) for after a right neighbour of before.
C6_NoLookupMiss ==
    /\ err # "lookup_miss"
    /\ q.out.kind # "lookup_miss"

Queried == pc = "done" /\ q.before # 0

\* the polyline the query looked up
queriedPolyline ==
    IF querySide(q.before, q.after) = LEFT THEN left_edges[queryCell(q.before, q.after)]
                                         ELSE right_edges[queryCell(q.before, q.after)]

queryFound ==
    queryCell(q.before, q.after)
        \in DOMAIN (IF querySide(q.before, q.after) = LEFT THEN left_edges ELSE right_edges)

\* C7: getCellEdgeLocation(a, b, a.z_min) is the XY of the first point of the
\* polyline of the a-b edge and getCellEdgeLocation(a, b, a.z_max) that of its
\* last point, for every lateral pair.
C7_EndpointCoherence ==
    Queried =>
        /\ q.z = cells[q.before].zmin =>
              /\ queryFound
              /\ q.out.kind = "point"
              /\ q.out.p = toPoint(Head(queriedPolyline))
        /\ q.z = cells[q.before].zmax =>
              /\ queryFound
              /\ q.out.kind = "point"
              /\ q.out.p = toPoint(Last(queriedPolyline))

\* C8: a query with z below the first or above the last point of the governing
\* polyline ends in the assertion failure: it returns no point and reads no
\* element beyond the polyline.
C8_OutOfRangeAsserts ==
    ( /\ Queried
      /\ queryFound
      /\ q.z < Head(queriedPolyline)[3] \/ q.z > Last(queriedPolyline)[3] )
        => (q.out.kind = "assert_false" /\ ~q.out.oob)

singleCell == Len(cells) = 1 /\ ~hasNeighbor(1, LEFT) /\ ~hasNeighbor(1, RIGHT)

\* C9: for a subdivision of a single cell without lateral neighbours, after
\* construction the cell is a key of both mappings, each polyline being the two
\* lifted end points of fromEdge resp. toEdge (swapped when not expanding).
C9_SingleCellOwnsBoth ==
    (Constructed /\ singleCell) =>
        /\ DOMAIN left_edges = {1}
        /\ DOMAIN right_edges = {1}
        /\ left_edges[1] = initialEdge(1, LEFT)
        /\ right_edges[1] = initialEdge(1, RIGHT)

\* C9 as amended: for a subdivision of a single cell without lateral
\* neighbours, after construction the cell is a key of neither mapping.
C9_SingleCellOwnsNothing ==
    (Constructed /\ singleCell) =>
        /\ DOMAIN left_edges = {}
        /\ DOMAIN right_edges = {}

C9_Witness == Constructed /\ singleCell /\ ~cells[1].exp

\* some call of the Resolver pass takes the front or back of an empty list
emptyListRead ==
    \E c \in CellIds : \E V \in {UP, DOWN} : EmptyListReads(c, V) # {NoRead}

initialEdgesSteep ==
    \A c \in CellIds : \A side \in {LEFT, RIGHT} :
        debugCheckInclination(initialEdge(c, side))

\* C11: provided every initial lifted triangle side is steeper than 35 degrees,
\* after construction every segment of every stored polyline is steeper than
\* 35 degrees: the inclination assertions of the debug build pass.
C11_Inclination ==
    (Constructed /\ initialEdgesSteep) => debugCheckInclinations

\* the polylines read by a step that processes c belong to strictly deeper cells
\* whose addCellEdges call is complete
readsDeeperCompleted(c, reads) ==
    \A r \in reads : depth(r.cell) > depth(c) /\ r.cell \in built

\* C12: in both passes, every polyline read while processing a cell C belongs
\* to a cell of strictly greater depth whose processing was completed earlier,
\* and every write affects only entries keyed by C.
C12_ReadsDeeperWritesOwn ==
    [][\A c \in CellIds :
          /\ BuildStepOf(c) =>
                /\ readsDeeperCompleted(c, builderReads(c))
                /\ \A w \in written : w.cell = c
          /\ \A V \in {UP, DOWN} : ResolveStepOf(c, V) =>
                /\ readsDeeperCompleted(c, resolverReads(c, V, NoRead))
                /\ \A w \in written : w.cell = c]_vars

\* C12 as amended: in the Builder pass every polyline read while processing C
\* belongs to a strictly deeper cell whose addCellEdges call is complete, and
\* the only writes insert entries keyed by C.  In the Resolver pass the step
\* for (C, V) does nothing when C.adjacent[V] has fewer than two cells.
\* Otherwise, when C has lateral neighbours on both sides, every polyline the
\* step reads is owned by C, by a lateral neighbour of C or by the front cell
\* of C.adjacent[V], a cell at least as deep as C; the only entry it may write
\* is the RIGHT polyline of that front cell, keyed by the front cell and not by
\* C; and no entry is inserted or removed.  (When C has no lateral neighbour on
\* a side the step takes the front or back of an empty list: nothing is stated
\* of what it reads and writes.)
C12_ReadsWritesByPass ==
    [][\A c \in CellIds :
          /\ BuildStepOf(c) =>
                /\ readsDeeperCompleted(c, builderReads(c))
                /\ \A w \in written :
                      /\ w.cell = c
                      /\ c \notin DOMAIN edgeMap(Now, w.side)
          /\ \A V \in {UP, DOWN} : ResolveStepOf(c, V) =>
                IF Len(adjacent(c, V)) < 2
                THEN written = {}
                ELSE IF EmptyListReads(c, V) # {NoRead}
                THEN TRUE
                ELSE /\ \A r \in resolverReads(c, V, NoRead) :
                           /\ depth(r.cell) >= depth(c)
                           /\ r.cell = c \/ r.cell = Head(adjacent(c, V))
                                 \/ \E S \in {LEFT, RIGHT} :
                                       \E i \in DOMAIN adjacent(c, S) :
                                           adjacent(c, S)[i] = r.cell
                     /\ written \subseteq {Entry(RIGHT, Head(adjacent(c, V)))}
                     /\ DOMAIN left_edges' = DOMAIN left_edges
                     /\ DOMAIN right_edges' = DOMAIN right_edges]_vars

\* a cell whose builder call read a deeper cell's polyline, and a cell whose
\* resolver call read its own polyline and moved an end of another cell's
C12_Witness ==
    /\ Constructed
    /\ \E c \in CellIds :
          /\ builderReads(c) # {}
          /\ \E e \in Stored : \E V \in {UP, DOWN} :
                e.cell = c /\ constrained(c, e.side, V) /\ endMoved(e, V)
    /\ \E c \in CellIds : \E V \in {UP, DOWN} :
          /\ Entry(RIGHT, c) \in resolverReads(c, V, NoRead)
          /\ Head(adjacent(c, V)) # c
          /\ \E e \in Stored :
                /\ e.side = RIGHT
                /\ e.cell = Head(adjacent(c, V))
                /\ endMoved(e, opposite(V))

\* a direct call of adjustEdgeEnd whose V-end differs from the destination
probeMoved ==
    /\ pc = "probed"
    /\ probe.P[EndIdx(probe.P, probe.V)] # probe.dest

\* squared 3D distance
sqDist3(p, r) ==
    (p[1] - r[1]) * (p[1] - r[1]) + (p[2] - r[2]) * (p[2] - r[2])
        + (p[3] - r[3]) * (p[3] - r[3])

\* both squared distances of the candidate bend exceed 100
probeBendFarEnough ==
    /\ sqDist3(bending_point(probe.P, probe.V, probe.dest),
               NextToEnd(probe.P, probe.V)) > 100
    /\ sqDist3(bending_point(probe.P, probe.V, probe.dest), probe.dest) > 100

\* the points of a polyline other than its V-end, in order
othersOf(P, V) == IF V = UP THEN SubSeq(P, 1, Len(P) - 1) ELSE SubSeq(P, 2, Len(P))

\* C13: adjustEdgeEnd(P, V, destination) with the V-end of P different from
\* destination returns with the V-end equal to destination; P has exactly one
\* more point, the candidate bend, placed next to the moved end (before the
\* last point for UP, after the first for DOWN) if and only if both squared 3D
\* distances from the bend, to the neighbour a and to destination, exceed 100;
\* otherwise P keeps its number of points; every other point is unchanged and
\* in its place.
C13_AdjustEdgeEnd ==
    probeMoved =>
        /\ ~probe.trap
        /\ endOf(probe.out, probe.V) = probe.dest
        /\ IF probeBendFarEnough
           THEN /\ Len(probe.out) = Len(probe.P) + 1
                /\ probeBend = bending_point(probe.P, probe.V, probe.dest)
                /\ othersOf(othersOf(probe.out, probe.V), probe.V)
                      = othersOf(probe.P, probe.V)
           ELSE /\ Len(probe.out) = Len(probe.P)
                /\ othersOf(probe.out, probe.V) = othersOf(probe.P, probe.V)

\* the end the probe moved, and the candidate bend of the call
probeT == probe.P[EndIdx(probe.P, probe.V)]

probeCandidate == bending_point(probe.P, probe.V, probe.dest)

probeDir == edge_direction_vector(probe.P, probe.V)

probeM == move_length(probe.P, probe.V, probe.dest)

probeN == edge_direction_vector_length(probe.P, probe.V)

\* C14: the candidate bend of adjustEdgeEnd is t + dir * (m / 2) / n with n the
\* 3D length of a - t: every call that moves the end computes it, and it lies
\* at 3D distance m / 2 from t, up to integer rounding (2 units).
C14_BendAtHalfMove3D ==
    probeMoved =>
        /\ ~probe.trap
        /\ Abs(ISqrt(sqDist3(probeCandidate, probeT)) - probeM \div 2) <= 2

\* C14 as amended: n is the 2D length of a - t.  A call that moves the end of
\* a vertical adjacent segment (n = 0) divides by zero and computes no bend.
\* Every other call that moves the end computes the candidate
\* t + ((dir * m) / 2) / n, each division truncating per coordinate: it lies
\* on the line from t through a, on the side of a, with its XY at 2D distance
\* m / 2 from the XY of t and its z offset from t the fraction (m / 2) / n of
\* the z extent of a - t, each up to integer rounding (2 units; the cross
\* product with dir bounded by the rounding of one unit per coordinate).
C14_BendAtHalfMove2D ==
    probeMoved =>
        IF probeN = 0 THEN probe.trap
        ELSE LET off == P3Sub(probeCandidate, probeT)
             IN /\ ~probe.trap
                /\ off = P3Div(P3Div(P3Mul(probeDir, probeM), 2), probeN)
                /\ Abs(vSize(toPoint(off)) - probeM \div 2) <= 2
                /\ Abs(cross(toPoint(off), toPoint(probeDir)))
                      <= Abs(probeDir[1]) + Abs(probeDir[2])
                /\ off[1] * probeDir[1] >= 0 /\ off[2] * probeDir[2] >= 0
                /\ off[3] * probeDir[3] >= 0
                /\ Abs(off[3] * 2 * probeN - probeDir[3] * probeM) <= 2 * 2 * probeN

\* a call whose bend the 2D length puts farther than m / 2 from t
C14_Witness ==
    /\ probeMoved
    /\ ~probe.trap
    /\ probe.V = UP
    /\ probeM >= 1000
    /\ probeDir[3] # 0
    /\ Len(probe.out) = Len(probe.P) + 1
    /\ probeBend = probeCandidate
    /\ ISqrt(sqDist3(probeCandidate, probeT)) > probeM \div 2 + 100

\* a direct call of adjustEdgeEnd whose destination has the XY of the end to
\* move (2D move length 0)
probeZeroMove ==
    /\ pc = "probed"
    /\ toPoint(probe.dest) = toPoint(probeT)

\* C15: adjustEdgeEnd with a destination at 2D move length 0 returns and
\* leaves the polyline unchanged, whatever the destination's z.
C15_ZeroMoveUnchanged ==
    probeZeroMove => ~probe.trap /\ probe.out = probe.P

\* C15 as amended: with a destination at 2D move length 0, the polyline is
\* unchanged when the destination also has the z of the end to move.  When
\* its z differs and the adjacent segment is vertical, the call divides by
\* zero.  When its z differs and the adjacent segment is not vertical, the end
\* is set to the destination, and the old end point t is kept as a bend next
\* to it exactly when the squared 3D distance from t to its neighbour a and
\* the squared z difference both exceed 100.
C15_ZeroMove ==
    probeZeroMove =>
        IF probe.dest = probeT THEN ~probe.trap /\ probe.out = probe.P
        ELSE IF probeN = 0 THEN probe.trap
        ELSE /\ ~probe.trap
             /\ endOf(probe.out, probe.V) = probe.dest
             /\ othersOf(probe.out, probe.V) =
                   IF /\ sqDist3(probeT, NextToEnd(probe.P, probe.V)) > 100
                      /\ (probe.dest[3] - probeT[3]) * (probe.dest[3] - probeT[3]) > 100
                   THEN probe.P
                   ELSE othersOf(probe.P, probe.V)

C15_Witness ==
    /\ probeZeroMove
    /\ ~probe.trap
    /\ probe.dest[3] # probeT[3]
    /\ Len(probe.P) = 3
    /\ probe.V = UP
    /\ Len(probe.out) = 4
    /\ probe.out[3] = probeT

\* the Builder pass is running or has just ended: no resolver call has run
InBuilderPass == pc = "build" \/ (pc = "resolve" /\ resolved = {} /\ cur = 0)

\* the corner of the triangle side S of c at its V end, lifted to the z bound
liftedCorner(c, S, V) ==
    LET e == IF S = LEFT THEN cells[c].fromEdge ELSE cells[c].toEdge
        low == IF cells[c].exp THEN e[1] ELSE e[2]
        high == IF cells[c].exp THEN e[2] ELSE e[1]
    IN IF V = UP THEN <<high[1], high[2], cells[c].zmax>>
                 ELSE <<low[1], low[2], cells[c].zmin>>

\* no constraint on side S of c in direction V: no neighbour in direction V,
\* or c at least as deep as N_V and N_VS
noConstraint(c, S, V) ==
    \/ adjacent(c, V) = <<>>
    \/ /\ adjacent(upstairsNeighbor(c, S, V), S) # <<>>
       /\ depth(c) >= depth(upstairsNeighbor(c, S, V))
       /\ depth(c) >= depth(upstairsSideNeighbor(c, S, V))

\* C16: in the Builder pass, for an owned side S of a cell C and a direction V
\* with C.adjacent[V] empty or depth(C) >= max(depth(N_V), depth(N_VS)), the
\* stored polyline has its V end at the triangle corner lifted to the cell's z
\* bound and no bend next to it (it has at most the one bend of the other
\* direction, and its point next to the V end is then that bend or the other
\* end); when this holds for UP and DOWN the stored polyline is exactly the
\* two lifted corners.
C16_NoConstraintNoChange ==
    InBuilderPass =>
        \A e \in Stored :
            /\ \A V \in {UP, DOWN} :
                  noConstraint(e.cell, e.side, V) =>
                      /\ endOf(e.P, V) = liftedCorner(e.cell, e.side, V)
                      /\ Len(e.P) <= 3
                      /\ Len(e.P) = 3 =>
                            /\ ~noConstraint(e.cell, e.side, opposite(V))
                            /\ endOf(e.P, opposite(V))
                                  # liftedCorner(e.cell, e.side, opposite(V))
            /\ (noConstraint(e.cell, e.side, UP) /\ noConstraint(e.cell, e.side, DOWN)) =>
                  e.P = <<liftedCorner(e.cell, e.side, DOWN),
                          liftedCorner(e.cell, e.side, UP)>>

\* the Builder pass has ended with a polyline of a cell that is as deep as its
\* upstairs neighbours and kept both corners, and a polyline that was bent at
\* one end and kept the corner of its top- or bottom-layer end
C16_Witness ==
    /\ pc = "resolve" /\ resolved = {} /\ cur = 0
    /\ \E e \in Stored : \E V \in {UP, DOWN} :
          /\ adjacent(e.cell, V) # <<>>
          /\ noConstraint(e.cell, e.side, V)
          /\ noConstraint(e.cell, e.side, opposite(V))
          /\ ~cells[e.cell].exp
          /\ Len(e.P) = 2
    /\ \E e \in Stored : \E V \in {UP, DOWN} :
          /\ adjacent(e.cell, V) = <<>>
          /\ constrained(e.cell, e.side, opposite(V))
          /\ Len(e.P) = 3
          /\ endOf(e.P, V) = liftedCorner(e.cell, e.side, V)

\* Q is P with at most its V end replaced and at most one point inserted next
\* to that end
onlyEndAdjusted(P, Q, V) ==
    \/ Q = P
    \/ Len(Q) = Len(P) /\ othersOf(Q, V) = othersOf(P, V)
    \/ Len(Q) = Len(P) + 1 /\ othersOf(othersOf(Q, V), V) = othersOf(P, V)

\* C17: a resolver step preventZdiscontinuityProblem(C, V) leaves the key sets
\* of both mappings and every polyline of left_edges unchanged; it changes at
\* most the RIGHT polyline of the front cell of C.adjacent[V], of which only
\* the end on the opposite(V) side may move and next to which at most one bend
\* may be inserted; with fewer than 2 entries in C.adjacent[V] it changes
\* nothing, and with 3 or more only the front cell's RIGHT polyline.
C17_ResolverFrame ==
    [][\A c \in CellIds : \A V \in {UP, DOWN} :
          ResolveStepOf(c, V) =>
              /\ left_edges' = left_edges
              /\ DOMAIN right_edges' = DOMAIN right_edges
              /\ IF Len(adjacent(c, V)) < 2 THEN right_edges' = right_edges
                 ELSE \A k \in DOMAIN right_edges :
                         IF k = Head(adjacent(c, V))
                         THEN onlyEndAdjusted(right_edges[k], right_edges'[k],
                                              opposite(V))
                         ELSE right_edges'[k] = right_edges[k]]_vars

\* after construction over three upstairs cells: the front cell's RIGHT
\* polyline has its lower end moved and a bend, the middle cell's RIGHT
\* polyline is as the Builder pass left it
C17_Witness ==
    /\ Constructed
    /\ \E c \in CellIds : \E V \in {UP, DOWN} :
          /\ Len(adjacent(c, V)) >= 3
          /\ Head(adjacent(c, V)) \in DOMAIN right_edges
          /\ adjacent(c, V)[2] \in DOMAIN right_edges
          /\ LET front == right_edges[Head(adjacent(c, V))]
                 middle == right_edges[adjacent(c, V)[2]]
             IN /\ Len(front) = 3
                /\ endOf(front, opposite(V))
                      # liftedCorner(Head(adjacent(c, V)), RIGHT, opposite(V))
                /\ middle = <<liftedCorner(adjacent(c, V)[2], RIGHT, DOWN),
                              liftedCorner(adjacent(c, V)[2], RIGHT, UP)>>

====
